---- MODULE Spec2Model ----
(***************************************************************************)
(* Model of the Logsy logger (src/src/logsy/core/contextual.py).           *)
(*                                                                         *)
(* Text is modelled as sequences of one-character strings; the escape      *)
(* byte 0x1B is the character "ESC", the line feed is "LF".                *)
(***************************************************************************)
EXTENDS Integers, Sequences, FiniteSets, TLC

VARIABLES
    loggers,          \* session id -> None or the fields of a Logsy object
    active_loggers,   \* the process-wide registry _active_loggers
    console,          \* what print() has written so far, one entry per line
    file,             \* content of the log file, a sequence of characters
    terminal,         \* what the terminal size query currently answers
    scope,            \* session id -> what entering the with-block returned while
                      \* inside it, else Outside or how the block was last left
    closes,           \* session id -> number of footer requests made so far
    logCalls,         \* number of log() calls made so far
    running,          \* FALSE once the interpreter has shut down
    returned          \* what a test harness holds of its last call: the outcome of
                      \* wrap_text, or the custom_colors it constructed with; else None

vars == <<loggers, active_loggers, console, file, terminal, scope,
          closes, logCalls, running, returned>>

\* Python's None; like the empty string and the empty dict it is falsy
None == <<>>
Some(x) == <<x>>

(***************************************************************************)
(* Bounds.                                                                 *)
(***************************************************************************)
MaxLog == 2
MaxClose == 2
MaxColumns == 170
MaxText == 4
MaxWidth == 4
MaxEntries == 2

(***************************************************************************)
(* Generic helpers on sequences.                                           *)
(***************************************************************************)
RECURSIVE Repeat(_, _)
Repeat(c, n) == IF n <= 0 THEN <<>> ELSE <<c>> \o Repeat(c, n - 1)

RECURSIVE Concat(_)
Concat(ss) == IF ss = <<>> THEN <<>> ELSE Head(ss) \o Concat(Tail(ss))

RECURSIVE JoinWith(_, _)
JoinWith(sep, ss) ==
    IF ss = <<>> THEN <<>>
    ELSE IF Len(ss) = 1 THEN ss[1]
    ELSE ss[1] \o sep \o JoinWith(sep, Tail(ss))

StartsWithAt(text, i, pat) ==
    /\ i + Len(pat) - 1 <= Len(text)
    /\ \A k \in 1..Len(pat) : text[i + k - 1] = pat[k]

Contains(text, pat) == \E i \in 1..Len(text) : StartsWithAt(text, i, pat)

Max(a, b) == IF a >= b THEN a ELSE b

RECURSIVE DigitsOf(_)
DigitsOf(n) ==
    LET d == <<"0", "1", "2", "3", "4", "5", "6", "7", "8", "9">>[(n % 10) + 1]
    IN IF n < 10 THEN <<d>> ELSE DigitsOf(n \div 10) \o <<d>>

(***************************************************************************)
(* str.upper() on the alphabet the model uses.                             *)
(***************************************************************************)
LowerCase == <<"a", "b", "c", "d", "e", "f", "g", "h", "i", "j", "k", "l", "m",
               "n", "o", "p", "q", "r", "s", "t", "u", "v", "w", "x", "y", "z">>
UpperCase == <<"A", "B", "C", "D", "E", "F", "G", "H", "I", "J", "K", "L", "M",
               "N", "O", "P", "Q", "R", "S", "T", "U", "V", "W", "X", "Y", "Z">>

UpperChar(c) ==
    IF \E i \in 1..26 : LowerCase[i] = c
    THEN UpperCase[CHOOSE i \in 1..26 : LowerCase[i] = c]
    ELSE c

LowerChar(c) ==
    IF \E i \in 1..26 : UpperCase[i] = c
    THEN LowerCase[CHOOSE i \in 1..26 : UpperCase[i] = c]
    ELSE c

upper(text) == [i \in 1..Len(text) |-> UpperChar(text[i])]
lower(text) == [i \in 1..Len(text) |-> LowerChar(text[i])]

(***************************************************************************)
(* IEEE-754 double arithmetic for int(extra_space * 0.10) and friends.     *)
(* A double constant is mantissa * 2^-shift with a 53-bit mantissa, given  *)
(* as hexadecimal digits, most significant first.  Numbers too large for   *)
(* machine integers are sequences of bits, least significant first.        *)
(***************************************************************************)
RECURSIVE HexToBits(_)
HexToBits(hex) ==
    IF hex = <<>> THEN <<>>
    ELSE LET h == hex[Len(hex)]
         IN <<h % 2, (h \div 2) % 2, (h \div 4) % 2, (h \div 8) % 2>>
            \o HexToBits(SubSeq(hex, 1, Len(hex) - 1))

RECURSIVE StripTop(_)
StripTop(bits) ==
    IF bits = <<>> THEN <<>>
    ELSE IF bits[Len(bits)] = 0 THEN StripTop(SubSeq(bits, 1, Len(bits) - 1))
    ELSE bits

RECURSIVE IntToBits(_)
IntToBits(n) == IF n = 0 THEN <<>> ELSE <<n % 2>> \o IntToBits(n \div 2)

RECURSIVE BitsToInt(_)
BitsToInt(bits) ==
    IF bits = <<>> THEN 0 ELSE bits[1] + 2 * BitsToInt(Tail(bits))

\* the exact product n * mantissa
RECURSIVE MulBits(_, _, _)
MulBits(n, bits, carry) ==
    IF bits = <<>> THEN IntToBits(carry)
    ELSE LET t == n * bits[1] + carry
         IN <<t % 2>> \o MulBits(n, Tail(bits), t \div 2)

RECURSIVE IncBits(_)
IncBits(bits) ==
    IF bits = <<>> THEN <<1>>
    ELSE IF bits[1] = 0 THEN <<1>> \o Tail(bits)
    ELSE <<0>> \o IncBits(Tail(bits))

\* round to nearest, ties to even, keeping 53 significant bits
RoundTo53(bits) ==
    LET p == StripTop(bits)
        s == Len(p) - 53
    IN IF s <= 0 THEN p
       ELSE LET q     == SubSeq(p, s + 1, Len(p))
                rest  == SubSeq(p, 1, s)
                above == \E i \in 1..(s - 1) : rest[i] = 1
                up    == rest[s] = 1 /\ (above \/ q[1] = 1)
            IN Repeat(0, s) \o (IF up THEN IncBits(q) ELSE q)

Mantissa_0_10 == <<1, 9, 9, 9, 9, 9, 9, 9, 9, 9, 9, 9, 9, 10>>
Mantissa_0_20 == <<1, 9, 9, 9, 9, 9, 9, 9, 9, 9, 9, 9, 9, 10>>
Mantissa_0_70 == <<1, 6, 6, 6, 6, 6, 6, 6, 6, 6, 6, 6, 6, 6>>
Shift_0_10 == 56
Shift_0_20 == 55
Shift_0_70 == 53

\* int(n * d) for a non-negative int n and the double d = mantissa * 2^-shift
IntOfProduct(n, mantissa, shift) ==
    LET r == RoundTo53(MulBits(n, StripTop(HexToBits(mantissa)), 0))
    IN IF Len(r) <= shift THEN 0 ELSE BitsToInt(SubSeq(r, shift + 1, Len(r)))

(***************************************************************************)
(* The color table COLOR_MAP of logsy/core/utils.py: color name -> SGR     *)
(* escape sequence.  ColorCodes lists its values in table order.           *)
(***************************************************************************)
ESC == "ESC"
Sgr(digits) == <<ESC, "[">> \o digits \o <<"m">>

ColorNames == <<<<"b", "l", "u", "e">>, <<"y", "e", "l", "l", "o", "w">>, <<"r", "e", "d">>, <<"c", "y", "a", "n">>, <<"g", "r", "e", "e", "n">>, <<"m", "a", "g", "e", "n", "t", "a">>, <<"r", "e", "s", "e", "t">>>>
ColorCodes == <<Sgr(<<"3", "4">>), Sgr(<<"3", "3">>), Sgr(<<"3", "1">>), Sgr(<<"3", "6">>),
                Sgr(<<"3", "2">>), Sgr(<<"3", "5">>), Sgr(<<"0">>)>>

COLOR_MAP == [n \in {ColorNames[i] : i \in 1..Len(ColorNames)} |->
                 ColorCodes[CHOOSE i \in 1..Len(ColorNames) : ColorNames[i] = n]]

(***************************************************************************)
(* Level names, messages and the other inputs of the operations.           *)
(***************************************************************************)
INFO == <<"I", "N", "F", "O">>
WARNING == <<"W", "A", "R", "N", "I", "N", "G">>
ERROR == <<"E", "R", "R", "O", "R">>
DEBUG == <<"D", "E", "B", "U", "G">>
Note == <<"n", "o", "t", "e">>

\* levels passed to log() directly: a custom level without a default color
LogLevels == {Note}

Messages == {<<"o", "k">>}

Timestamps == {<<"2", "0", "2", "6", "-", "0", "1", "-", "0", "1", " ", "0", "0", ":", "0", "0", ":", "0", "0">>}

Titles == {None, <<"T", "a", "b">>}

\* custom_colors arguments: none, or one that overrides a default, colors a
\* custom level with a mixed-case color name, and names an unknown color
CustomColors ==
    {None,
     <<<<<<"i", "n", "f", "o">>, <<"c", "y", "a", "n">>>>, <<<<"n", "o", "t", "e">>, <<"G", "r", "e", "e", "n">>>>, <<<<"E", "R", "R", "O", "R">>, <<"p", "i", "n", "k">>>>>>}

\* answers of shutil.get_terminal_size(): a column count, or a query that raises
Answer(n) == [ok |-> TRUE, columns |-> n]
QueryFails == [ok |-> FALSE, columns |-> 0]
TerminalSizes == {Answer(40), QueryFails}

SessionIds == {"a", "b"}

FileName == <<"c", "o", "n", "t", "e", "x", "t", "u", "a", "l", ".", "p", "y">>

(***************************************************************************)
(* Character classes of the regular expressions involved.                  *)
(***************************************************************************)
Letters == {LowerCase[i] : i \in 1..26} \cup {UpperCase[i] : i \in 1..26}
Digits == {"0", "1", "2", "3", "4", "5", "6", "7", "8", "9"}
Whitespace == {" ", "LF", "TAB"}

\* [0-?], [ -/] and [@-~] of the CSI pattern and [@-Z\\-_] of the short one,
\* over the characters that occur in the model
CsiParameter == Digits \cup {":", ";", "<", "=", ">", "?"}
CsiIntermediate == {" ", "!", "#", "$", "%", "&", "+", ",", "-", ".", "/"}
CsiFinal == Letters \cup {"@", "[", "]", "^", "_", "{", "|", "}", "~"}
EscSingle == {UpperCase[i] : i \in 1..26} \cup {"@", "]", "^", "_"}

(***************************************************************************)
(* String methods of Python used by the logger.                            *)
(***************************************************************************)
\* format(text, "<w")
ljust(text, w) == text \o Repeat(" ", w - Len(text))

\* format(text, "^w")
center_format(text, w) ==
    LET pad  == Max(w - Len(text), 0)
        left == pad \div 2
    IN Repeat(" ", left) \o text \o Repeat(" ", pad - left)

\* text.center(w)
center(text, w) ==
    LET pad  == Max(w - Len(text), 0)
        left == (pad \div 2) + (IF pad % 2 = 1 /\ w % 2 = 1 THEN 1 ELSE 0)
    IN Repeat(" ", left) \o text \o Repeat(" ", pad - left)

\* text.replace(pat, "")
RECURSIVE Remove(_, _)
Remove(text, pat) ==
    IF text = <<>> THEN <<>>
    ELSE IF StartsWithAt(text, 1, pat)
         THEN Remove(SubSeq(text, Len(pat) + 1, Len(text)), pat)
         ELSE <<Head(text)>> \o Remove(Tail(text), pat)

\* text.strip() = ""
IsBlank(text) == \A i \in 1..Len(text) : text[i] \in Whitespace

(***************************************************************************)
(* strip_ansi_codes: removes every match of                                *)
(*   ESC ( [@-Z\\-_] | "[" [0-?]* [ -/]* [@-~] ).                          *)
(***************************************************************************)
RECURSIVE SkipWhile(_, _, _)
SkipWhile(text, i, class) ==
    IF i <= Len(text) /\ text[i] \in class THEN SkipWhile(text, i + 1, class) ELSE i

\* length of the escape sequence that starts at index i, 0 when there is none
AnsiMatchLen(text, i) ==
    IF text[i] # ESC \/ i + 1 > Len(text) THEN 0
    ELSE IF text[i + 1] \in EscSingle THEN 2
    ELSE IF text[i + 1] = "["
         THEN LET j == SkipWhile(text, SkipWhile(text, i + 2, CsiParameter), CsiIntermediate)
              IN IF j <= Len(text) /\ text[j] \in CsiFinal THEN j - i + 1 ELSE 0
    ELSE 0

RECURSIVE StripFrom(_, _)
StripFrom(text, i) ==
    IF i > Len(text) THEN <<>>
    ELSE LET n == AnsiMatchLen(text, i)
         IN IF n > 0 THEN StripFrom(text, i + n)
            ELSE <<text[i]>> \o StripFrom(text, i + 1)

strip_ansi_codes(text) == StripFrom(text, 1)

(***************************************************************************)
(* textwrap.wrap(text, width, break_long_words=True,                       *)
(*               break_on_hyphens=True, expand_tabs=False),                *)
(* as wrap_text calls it: whitespace is normalised to spaces, the text is  *)
(* split into chunks (runs of spaces, words, hyphenated word parts, em     *)
(* dashes), and lines are filled greedily.                                 *)
(***************************************************************************)
WordChars == Letters \cup Digits \cup {"_"}
WordPunct == WordChars \cup {"!", "&", ".", ",", "?"}

Munge(text) == [i \in 1..Len(text) |-> IF text[i] \in Whitespace THEN " " ELSE text[i]]

IsLetterAt(text, i) == i >= 1 /\ i <= Len(text) /\ text[i] \in Letters
IsCharAt(text, i, c) == i >= 1 /\ i <= Len(text) /\ text[i] = c

\* the hyphen at index h closes a chunk: letters on both sides of it
HyphenBreak(text, h) ==
    /\ IsCharAt(text, h, "-")
    /\ \/ IsLetterAt(text, h - 2) /\ IsLetterAt(text, h - 1)
       \/ IsLetterAt(text, h - 3) /\ IsCharAt(text, h - 2, "-") /\ IsLetterAt(text, h - 1)
    /\ IsLetterAt(text, h + 1)
    /\ \/ IsLetterAt(text, h + 2)
       \/ IsCharAt(text, h + 2, "-") /\ IsLetterAt(text, h + 3)

\* two or more hyphens start at index i and a word character follows them
DashRun(text, i) ==
    /\ IsCharAt(text, i, "-") /\ IsCharAt(text, i + 1, "-")
    /\ LET k == SkipWhile(text, i, {"-"}) IN k <= Len(text) /\ text[k] \in WordChars

EmDashAt(text, i) == i > 1 /\ text[i - 1] \in WordPunct /\ DashRun(text, i)

\* index of the last character of the word chunk whose shortest candidate is i..j
RECURSIVE WordEnd(_, _)
WordEnd(text, j) ==
    IF HyphenBreak(text, j + 1) THEN j + 1
    ELSE IF j >= Len(text) \/ text[j + 1] = " " THEN j
    ELSE IF text[j] \in WordPunct /\ DashRun(text, j + 1) THEN j
    ELSE WordEnd(text, j + 1)

RECURSIVE SplitFrom(_, _)
SplitFrom(text, i) ==
    IF i > Len(text) THEN <<>>
    ELSE LET e == IF text[i] = " " THEN SkipWhile(text, i, {" "}) - 1
                  ELSE IF EmDashAt(text, i) THEN SkipWhile(text, i, {"-"}) - 1
                  ELSE WordEnd(text, i)
         IN <<SubSeq(text, i, e)>> \o SplitFrom(text, e + 1)

RECURSIVE SumLen(_)
SumLen(ss) == IF ss = <<>> THEN 0 ELSE Len(Head(ss)) + SumLen(Tail(ss))

\* how many leading chunks fit into what is left of the line
RECURSIVE Fitting(_, _)
Fitting(chunks, room) ==
    IF chunks # <<>> /\ Len(chunks[1]) <= room
    THEN 1 + Fitting(Tail(chunks), room - Len(chunks[1]))
    ELSE 0

\* chunk.rfind("-", 0, space_left) + 1, or 0 when there is no hyphen
LastHyphen(chunk, space_left) ==
    LET hs == {q \in 1..space_left : IsCharAt(chunk, q, "-")}
    IN IF hs = {} THEN 0 ELSE CHOOSE q \in hs : \A r \in hs : r <= q

\* TextWrapper._handle_long_word: where the chunk that cannot fit is cut
LongWordCut(chunk, space_left) ==
    LET q == LastHyphen(chunk, space_left)
    IN IF Len(chunk) > space_left /\ q > 1 /\ (\E k \in 1..(q - 1) : chunk[k] # "-")
       THEN q ELSE space_left

\* TextWrapper._wrap_chunks, for width >= 1, one line per round: the chunks
\* that fit go on the line (TakeFitting), a chunk longer than the width is
\* cut to fill the line (CutLongWord), a trailing blank chunk is dropped and
\* the line, when it is not empty, is added (EndLine)
RECURSIVE WrapChunks(_, _, _)

EndLine(cur, rest, width, lines) ==
    IF cur # <<>> /\ IsBlank(cur[Len(cur)])
    THEN WrapChunks(rest, width,
                    IF Len(cur) > 1
                    THEN Append(lines, Concat(SubSeq(cur, 1, Len(cur) - 1))) ELSE lines)
    ELSE WrapChunks(rest, width, IF cur # <<>> THEN Append(lines, Concat(cur)) ELSE lines)

CutAt(cur, rest, cut, width, lines) ==
    EndLine(Append(cur, SubSeq(rest[1], 1, cut)),
            <<SubSeq(rest[1], cut + 1, Len(rest[1]))>> \o Tail(rest), width, lines)

CutLongWord(cur, rest, width, lines) ==
    IF rest # <<>> /\ Len(rest[1]) > width
    THEN CutAt(cur, rest, LongWordCut(rest[1], width - SumLen(cur)), width, lines)
    ELSE EndLine(cur, rest, width, lines)

TakeFitting(chunks, n, width, lines) ==
    CutLongWord(SubSeq(chunks, 1, n), SubSeq(chunks, n + 1, Len(chunks)), width, lines)

FillLine(chunks, width, lines) == TakeFitting(chunks, Fitting(chunks, width), width, lines)

WrapChunks(chunks, width, lines) ==
    IF chunks = <<>> THEN lines
    ELSE IF IsBlank(chunks[1]) /\ lines # <<>> THEN FillLine(Tail(chunks), width, lines)
    ELSE FillLine(chunks, width, lines)

\* textwrap.wrap raises ValueError when width <= 0
textwrap_raises(text, width) == width <= 0

textwrap_wrap(text, width) == WrapChunks(SplitFrom(Munge(text), 1), width, <<>>)

(***************************************************************************)
(* Logsy.wrap_text                                                         *)
(***************************************************************************)
wrap_text_raises(text, width) == Len(text) > width /\ textwrap_raises(text, width)

OrText(wrapped_lines, text) == IF wrapped_lines # <<>> THEN wrapped_lines ELSE <<text>>

\* wrap_text without the shortcut for a text that fits
wrap_text_always_wraps(text, width) == OrText(textwrap_wrap(text, width), text)

wrap_text(text, width) ==
    IF Len(text) <= width THEN <<text>> ELSE OrText(textwrap_wrap(text, width), text)

(***************************************************************************)
(* The Logsy object.                                                       *)
(***************************************************************************)
Blue == ColorNames[1]
Yellow == ColorNames[2]
Red == ColorNames[3]
Cyan == ColorNames[4]
Reset == ColorNames[7]

DEFAULT_COLORS ==
    (INFO :> COLOR_MAP[Blue]) @@ (WARNING :> COLOR_MAP[Yellow]) @@
    (ERROR :> COLOR_MAP[Red]) @@ (DEBUG :> COLOR_MAP[Cyan])

\* the arguments of the constructor (file_path is left at one fixed path)
Configs ==
    [with_time : BOOLEAN, log_to_file : BOOLEAN, use_color : BOOLEAN,
     custom_colors : CustomColors, log_to_console : BOOLEAN,
     table_view : BOOLEAN, table_title : Titles]

\* the loop over custom_colors.items() giving up at the first unknown name
RECURSIVE ApplyCustomColors_stops_at_unknown(_, _)
ApplyCustomColors_stops_at_unknown(colors, items) ==
    IF items = <<>> THEN colors
    ELSE IF lower(items[1][2]) \in DOMAIN COLOR_MAP
         THEN ApplyCustomColors_stops_at_unknown(
                  (upper(items[1][1]) :> COLOR_MAP[lower(items[1][2])]) @@ colors,
                  Tail(items))
         ELSE colors

\* the loop over custom_colors.items() in __init__
RECURSIVE ApplyCustomColors(_, _)
ApplyCustomColors(colors, items) ==
    IF items = <<>> THEN colors
    ELSE LET level      == items[1][1]
             color_name == items[1][2]
         IN ApplyCustomColors(
                IF lower(color_name) \in DOMAIN COLOR_MAP
                THEN (upper(level) :> COLOR_MAP[lower(color_name)]) @@ colors
                ELSE colors,
                Tail(items))

\* __init__ with header_printed starting out True
Logsy_init_header_set(cfg) ==
    [with_time       |-> cfg.with_time,
     log_to_file     |-> cfg.log_to_file,
     use_color       |-> cfg.use_color,
     colors          |-> ApplyCustomColors(DEFAULT_COLORS, cfg.custom_colors),
     log_to_console  |-> cfg.log_to_console,
     table_view      |-> cfg.table_view,
     table_title     |-> IF cfg.table_view THEN cfg.table_title ELSE None,
     header_printed  |-> TRUE,
     footer_printed  |-> FALSE,
     auto_column_widths |-> None,
     row_count       |-> 0]

\* the fields of the object that __init__ leaves
Logsy_init(cfg) ==
    [with_time       |-> cfg.with_time,
     log_to_file     |-> cfg.log_to_file,
     use_color       |-> cfg.use_color,
     colors          |-> ApplyCustomColors(DEFAULT_COLORS, cfg.custom_colors),
     log_to_console  |-> cfg.log_to_console,
     table_view      |-> cfg.table_view,
     table_title     |-> IF cfg.table_view THEN cfg.table_title ELSE None,
     header_printed  |-> FALSE,
     footer_printed  |-> FALSE,
     auto_column_widths |-> None,
     row_count       |-> 0]

\* get_context: the frame two calls above get_context is the frame of log(),
\* so the location reported is the logger's own file and the line of log()
\* that is executing
LogLineBuild == 339
LogLineRow == 343
get_context(log_line) == <<FileName, log_line>>

apply_color(self, level, message) ==
    IF ~self.use_color THEN message
    ELSE (IF upper(level) \in DOMAIN self.colors
          THEN self.colors[upper(level)] ELSE COLOR_MAP[Reset])
         \o message \o COLOR_MAP[Reset]

\* build_message that puts the timestamp in whatever with_time says
plain_message_always_time(self, level, message, now) ==
    LET ctx   == get_context(LogLineBuild)
        parts == << <<"[">> \o now \o <<"]">>,
                    <<"[">> \o upper(level) \o <<"]">>,
                    ctx[1] \o <<":">> \o DigitsOf(ctx[2]),
                    <<"-", " ">> \o message >>
    IN JoinWith(<<" ">>, parts)

\* the line before colorization
plain_message(self, level, message, now) ==
    LET ctx   == get_context(LogLineBuild)
        parts == (IF self.with_time THEN <<(<<"[">> \o now \o <<"]">>)>> ELSE <<>>)
                 \o << <<"[">> \o upper(level) \o <<"]">>,
                       ctx[1] \o <<":">> \o DigitsOf(ctx[2]),
                       <<"-", " ">> \o message >>
    IN JoinWith(<<" ">>, parts)

\* build_message that colorizes the level token instead of the whole line
build_message_colors_level_only(self, level, message, now) ==
    LET ctx == get_context(LogLineBuild)
    IN JoinWith(<<" ">>,
           (IF self.with_time THEN <<(<<"[">> \o now \o <<"]">>)>> ELSE <<>>)
           \o << apply_color(self, level, <<"[">> \o upper(level) \o <<"]">>),
                 ctx[1] \o <<":">> \o DigitsOf(ctx[2]),
                 <<"-", " ">> \o message >>)

build_message(self, level, message, now) ==
    apply_color(self, level, plain_message(self, level, message, now))

get_terminal_width(term) == IF term.ok THEN term.columns ELSE 120

\* the width calculation with the time column forgotten on a narrow terminal
fresh_widths_narrow_without_time(self, term) ==
    LET terminal_width  == get_terminal_width(term)
        border_width    == IF self.with_time THEN 13 ELSE 10
        available_width == terminal_width - border_width
        min_sum         == (IF self.with_time THEN 19 ELSE 0) + 8 + 15 + 20
        extra_space     == available_width - min_sum
    IN IF available_width < min_sum
       THEN [time |-> 0, level |-> 8, file_line |-> 15, message |-> 20]
       ELSE [time      |-> IF self.with_time
                           THEN 19 + IntOfProduct(extra_space, Mantissa_0_10, Shift_0_10)
                           ELSE 0,
             level     |-> 8,
             file_line |-> 15 + IntOfProduct(extra_space, Mantissa_0_20, Shift_0_20),
             message   |-> 20 + IntOfProduct(extra_space, Mantissa_0_70, Shift_0_70)]

\* calculate_optimal_widths when nothing is cached
fresh_widths(self, term) ==
    LET terminal_width  == get_terminal_width(term)
        border_width    == IF self.with_time THEN 13 ELSE 10
        available_width == terminal_width - border_width
        min_widths      == [time      |-> IF self.with_time THEN 19 ELSE 0,
                            level     |-> 8,
                            file_line |-> 15,
                            message   |-> 20]
        min_sum         == min_widths.time + min_widths.level
                           + min_widths.file_line + min_widths.message
        extra_space     == available_width - min_sum
    IN IF available_width < min_sum THEN min_widths
       ELSE [time      |-> IF self.with_time
                           THEN min_widths.time
                                + IntOfProduct(extra_space, Mantissa_0_10, Shift_0_10)
                           ELSE 0,
             level     |-> min_widths.level,
             file_line |-> min_widths.file_line
                           + IntOfProduct(extra_space, Mantissa_0_20, Shift_0_20),
             message   |-> min_widths.message
                           + IntOfProduct(extra_space, Mantissa_0_70, Shift_0_70)]

\* calculate_optimal_widths that measures the terminal on every call
calculate_optimal_widths_uncached(self, term) == fresh_widths(self, term)

\* what calculate_optimal_widths returns; the object keeps it in the cache
calculate_optimal_widths(self, term) ==
    IF self.auto_column_widths # None THEN self.auto_column_widths[1]
    ELSE fresh_widths(self, term)

with_widths(self, term) ==
    [self EXCEPT !.auto_column_widths = Some(calculate_optimal_widths(self, term))]

(***************************************************************************)
(* Table rendering.  A console entry is one printed line: the session that *)
(* printed it, what it is, its text, and the column widths it was drawn    *)
(* with (None for a plain log line).  The box-drawing glyphs are named by  *)
(* their code points.                                                      *)
(***************************************************************************)
HeavyDownRight == "U250F"
HeavyHorizontal == "U2501"
HeavyDownHorizontal == "U2533"
HeavyDownLeft == "U2513"
HeavyVertical == "U2503"
SeparatorLeft == "U2521"
SeparatorCross == "U2547"
SeparatorRight == "U2529"
LightUpRight == "U2514"
LightHorizontal == "U2500"
LightUpHorizontal == "U2534"
LightUpLeft == "U2518"

Entry(sid, kind, text, widths) ==
    [sid |-> sid, kind |-> kind, text |-> text, widths |-> widths]

\* a border line: the time column is drawn only with with_time
Border(self, widths, left, fill, mid, right) ==
    <<left>>
    \o (IF self.with_time THEN Repeat(fill, widths.time) \o <<mid>> ELSE <<>>)
    \o Repeat(fill, widths.level) \o <<mid>>
    \o Repeat(fill, widths.file_line) \o <<mid>>
    \o Repeat(fill, widths.message) \o <<right>>

LabelTime == <<"T", "i", "m", "e">>
LabelLevel == <<"L", "e", "v", "e", "l">>
LabelFileLine == <<"F", "i", "l", "e", ":", "L", "i", "n", "e">>
LabelMessage == <<"M", "e", "s", "s", "a", "g", "e">>

\* the lines print_table_header prints, given the widths
header_lines(self, sid, widths) ==
    LET border_chars == IF self.with_time THEN 13 ELSE 10
        total_width  == (IF self.with_time THEN widths.time ELSE 0) + widths.level
                        + widths.file_line + widths.message + border_chars
        labels       == <<HeavyVertical>>
                        \o (IF self.with_time
                            THEN center_format(LabelTime, widths.time) \o <<HeavyVertical>>
                            ELSE <<>>)
                        \o center_format(LabelLevel, widths.level) \o <<HeavyVertical>>
                        \o center_format(LabelFileLine, widths.file_line) \o <<HeavyVertical>>
                        \o center_format(LabelMessage, widths.message) \o <<HeavyVertical>>
    IN (IF self.table_title # None
        THEN <<Entry(sid, "title", center(self.table_title, total_width), Some(widths))>>
        ELSE <<>>)
       \o <<Entry(sid, "top",
                  Border(self, widths, HeavyDownRight, HeavyHorizontal,
                         HeavyDownHorizontal, HeavyDownLeft), Some(widths)),
            Entry(sid, "labels", labels, Some(widths)),
            Entry(sid, "separator",
                  Border(self, widths, SeparatorLeft, HeavyHorizontal,
                         SeparatorCross, SeparatorRight), Some(widths))>>

print_table_header(self, sid, term) ==
    header_lines(self, sid, calculate_optimal_widths(self, term))

PadLines(lines, n) == lines \o Repeat(<<>>, n - Len(lines))

\* the level cell colorized on every physical line that has level text
level_cell_colors_every_line(self, level_upper, level_content, i, widths) ==
    IF level_content # <<>>
    THEN ljust(apply_color(self, level_upper, level_content),
               widths.level
               + (Len(apply_color(self, level_upper, level_content))
                  - Len(strip_ansi_codes(apply_color(self, level_upper, level_content)))))
    ELSE ljust(level_content, widths.level)

\* the level cell padded to the column width, escape codes counted as text
level_cell_plain_padding(self, level_upper, level_content, i, widths) ==
    IF level_content # <<>> /\ i = 1
    THEN ljust(apply_color(self, level_upper, level_content), widths.level)
    ELSE ljust(level_content, widths.level)

\* the level cell of physical line i: only the first line is colorized, and
\* its padding is widened by the length of the escape codes
level_cell(self, level_upper, level_content, i, widths) ==
    IF level_content # <<>> /\ i = 1
    THEN ljust(apply_color(self, level_upper, level_content),
               widths.level
               + (Len(apply_color(self, level_upper, level_content))
                  - Len(strip_ansi_codes(apply_color(self, level_upper, level_content)))))
    ELSE ljust(level_content, widths.level)

\* physical line i of a row, from the padded line lists
row_line(self, level_upper, timestamp_lines, level_lines, file_line_lines, message_lines, i, widths) ==
    <<HeavyVertical>>
    \o (IF self.with_time
        THEN ljust(timestamp_lines[i], widths.time) \o <<HeavyVertical>>
        ELSE <<>>)
    \o level_cell(self, level_upper, level_lines[i], i, widths) \o <<HeavyVertical>>
    \o ljust(file_line_lines[i], widths.file_line) \o <<HeavyVertical>>
    \o ljust(message_lines[i], widths.message) \o <<HeavyVertical>>

padded_row(self, sid, level_upper, timestamp_lines, level_lines, file_line_lines, message_lines, max_lines, widths) ==
    [i \in 1..max_lines |->
        Entry(sid, "row",
              row_line(self, level_upper,
                       PadLines(timestamp_lines, max_lines), PadLines(level_lines, max_lines),
                       PadLines(file_line_lines, max_lines), PadLines(message_lines, max_lines),
                       i, widths),
              Some(widths))]

wrapped_row(self, sid, level_upper, timestamp, timestamp_lines, level_lines, file_line_lines, message_lines, widths) ==
    padded_row(self, sid, level_upper, timestamp_lines, level_lines, file_line_lines,
               message_lines,
               Max(Max(IF timestamp # <<>> THEN Len(timestamp_lines) ELSE 1,
                       Len(level_lines)),
                   Max(Len(file_line_lines), Len(message_lines))),
               widths)

\* the physical lines of one row, without the header
row_lines(self, sid, level, message, now, widths) ==
    wrapped_row(self, sid, upper(level),
                IF self.with_time THEN now ELSE <<>>,
                IF self.with_time /\ now # <<>> THEN wrap_text(now, widths.time)
                ELSE << <<>> >>,
                wrap_text(upper(level), widths.level),
                wrap_text(get_context(LogLineRow)[1] \o <<":">>
                          \o DigitsOf(get_context(LogLineRow)[2]), widths.file_line),
                wrap_text(message, widths.message),
                widths)

\* print_table_row without the test of header_printed
print_table_row_always_header(self, sid, level, message, now, term) ==
    print_table_header(with_widths(self, term), sid, term)
    \o row_lines(self, sid, level, message, now, calculate_optimal_widths(self, term))

\* print_table_row that prints the missing header after the row
print_table_row_header_last(self, sid, level, message, now, term) ==
    row_lines(self, sid, level, message, now, calculate_optimal_widths(self, term))
    \o (IF ~self.header_printed
        THEN print_table_header(with_widths(self, term), sid, term) ELSE <<>>)

\* what print_table_row prints: the header first when it is still missing
print_table_row(self, sid, level, message, now, term) ==
    (IF ~self.header_printed
     THEN print_table_header(with_widths(self, term), sid, term) ELSE <<>>)
    \o row_lines(self, sid, level, message, now, calculate_optimal_widths(self, term))

\* print_table_row that counts only the rows written under an existing header
after_table_row_counts_after_header(self, term) ==
    [with_widths(self, term) EXCEPT !.header_printed = TRUE,
                                    !.row_count = IF self.header_printed
                                                  THEN self.row_count + 1
                                                  ELSE self.row_count]

\* the object after print_table_row
after_table_row(self, term) ==
    [with_widths(self, term) EXCEPT !.header_printed = TRUE,
                                    !.row_count = self.row_count + 1]

\* the line print_table_footer prints
footer_line(self, sid, widths) ==
    <<Entry(sid, "footer",
            Border(self, widths, LightUpRight, LightHorizontal,
                   LightUpHorizontal, LightUpLeft), Some(widths))>>

print_table_footer(self, sid, term) ==
    footer_line(self, sid, calculate_optimal_widths(self, term))

\* the loop of log() that removes every code of the color table
RECURSIVE strip_color_codes(_, _)
strip_color_codes(text, codes) ==
    IF codes = <<>> THEN text
    ELSE strip_color_codes(Remove(text, Head(codes)), Tail(codes))

\* log() writing the colorized line as it is
file_record_raw(log_message) == log_message \o <<"LF">>

\* what log() appends to the file
file_record(log_message) == strip_color_codes(log_message, ColorCodes) \o <<"LF">>

(***************************************************************************)
(* Footer requests: close(), leaving a with-block and the shutdown hook    *)
(* ask for the footer; it is printed when the header is out and the footer *)
(* is not.                                                                 *)
(***************************************************************************)
\* a footer request that forgets the footer is already out
footer_due_again(self) == self.header_printed

footer_due(self) == self.header_printed /\ ~self.footer_printed

flush_footer(self, sid, term) ==
    IF footer_due(self) THEN print_table_footer(self, sid, term) ELSE <<>>

after_flush(self, term) ==
    IF footer_due(self)
    THEN [with_widths(self, term) EXCEPT !.footer_printed = TRUE]
    ELSE self

\* the shutdown hook walks the registry in some order
RECURSIVE flush_all(_, _, _)
flush_all(order, objs, term) ==
    IF order = <<>> THEN <<>>
    ELSE flush_footer(objs[Head(order)], Head(order), term)
         \o flush_all(Tail(order), objs, term)

Outside == "outside"
LeftNormally == "left normally"
LeftByFailure == "left by failure"

\* entering the scope returns the session
enter(s) == s

Orders(S) == {o \in [1..Cardinality(S) -> S] : \A i, j \in DOMAIN o : i # j => o[i] # o[j]}

(***************************************************************************)
(* Initial state: the module is imported, no session exists yet.           *)
(***************************************************************************)
Init ==
    /\ loggers = <<>>
    /\ active_loggers = {}
    /\ console = <<>>
    /\ file = <<>>
    /\ terminal \in TerminalSizes
    /\ scope = [s \in SessionIds |-> Outside]
    /\ closes = [s \in SessionIds |-> 0]
    /\ logCalls = 0
    /\ running = TRUE
    /\ returned = None

(***************************************************************************)
(* Operations.                                                             *)
(***************************************************************************)
\* construction that registers every session, table or not
New_registers_all(s, cfg) ==
    /\ running
    /\ s \notin DOMAIN loggers
    /\ loggers' = (s :> Logsy_init(cfg)) @@ loggers
    /\ active_loggers' = active_loggers \cup {s}
    /\ UNCHANGED <<console, file, terminal, scope, closes, logCalls, running, returned>>

\* Logsy(...)
New(s, cfg) ==
    /\ running
    /\ s \notin DOMAIN loggers
    /\ loggers' = (s :> Logsy_init(cfg)) @@ loggers
    /\ active_loggers' = IF cfg.table_view THEN active_loggers \cup {s} ELSE active_loggers
    /\ UNCHANGED <<console, file, terminal, scope, closes, logCalls, running, returned>>

\* log(level, message); now and row_now are the two readings of the clock
LogCall(s, level, message, now, row_now) ==
    /\ running
    /\ s \in DOMAIN loggers
    /\ logCalls < MaxLog
    /\ LET self        == loggers[s]
           log_message == build_message(self, level, message, now)
           to_table    == self.log_to_console /\ self.table_view
       IN /\ console' = console \o
                 (IF ~self.log_to_console THEN <<>>
                  ELSE IF self.table_view
                       THEN print_table_row(self, s, level, message, row_now, terminal)
                       ELSE <<Entry(s, "line", log_message, None)>>)
          /\ loggers' = [loggers EXCEPT ![s] =
                 IF to_table THEN after_table_row(self, terminal) ELSE self]
          /\ file' = IF self.log_to_file THEN file \o file_record(log_message) ELSE file
    /\ logCalls' = logCalls + 1
    /\ UNCHANGED <<active_loggers, terminal, scope, closes, running, returned>>

Log(s, level, message, now, row_now) == LogCall(s, level, message, now, row_now)
Info(s, message, now, row_now) == LogCall(s, INFO, message, now, row_now)
Warning(s, message, now, row_now) == LogCall(s, WARNING, message, now, row_now)
Error(s, message, now, row_now) == LogCall(s, ERROR, message, now, row_now)
Debug(s, message, now, row_now) == LogCall(s, DEBUG, message, now, row_now)

\* a footer request by the session itself
Flush(s) ==
    /\ running
    /\ s \in DOMAIN loggers
    /\ closes[s] < MaxClose
    /\ console' = console \o flush_footer(loggers[s], s, terminal)
    /\ loggers' = [loggers EXCEPT ![s] = after_flush(loggers[s], terminal)]
    /\ closes' = [closes EXCEPT ![s] = @ + 1]

\* close()
Close(s) ==
    /\ Flush(s)
    /\ UNCHANGED <<active_loggers, file, terminal, scope, logCalls, running, returned>>

\* with session as x: ...
Enter(s) ==
    /\ running
    /\ s \in DOMAIN loggers
    /\ scope[s] \notin SessionIds
    /\ closes[s] < MaxClose
    /\ scope' = [scope EXCEPT ![s] = enter(s)]
    /\ UNCHANGED <<loggers, active_loggers, console, file, terminal, closes,
                   logCalls, running, returned>>

\* leaving the with-block flushes only when the body did not raise
Exit_skips_on_failure(s, failed) ==
    /\ scope[s] \in SessionIds
    /\ IF failed
       THEN /\ closes[s] < MaxClose
            /\ closes' = [closes EXCEPT ![s] = @ + 1]
            /\ UNCHANGED <<loggers, console>>
       ELSE Flush(s)
    /\ scope' = [scope EXCEPT ![s] = IF failed THEN LeftByFailure ELSE LeftNormally]
    /\ UNCHANGED <<active_loggers, file, terminal, logCalls, running, returned>>

\* the with-block is left, normally or because its body raised
Exit(s, failed) ==
    /\ scope[s] \in SessionIds
    /\ Flush(s)
    /\ scope' = [scope EXCEPT ![s] = IF failed THEN LeftByFailure ELSE LeftNormally]
    /\ UNCHANGED <<active_loggers, file, terminal, logCalls, running, returned>>

\* interpreter shutdown: the hook flushes every registered session
Shutdown ==
    /\ running
    /\ \E order \in Orders(active_loggers) :
          console' = console \o flush_all(order, loggers, terminal)
    /\ loggers' = [s \in DOMAIN loggers |->
                      IF s \in active_loggers THEN after_flush(loggers[s], terminal)
                      ELSE loggers[s]]
    /\ running' = FALSE
    /\ UNCHANGED <<active_loggers, file, terminal, scope, closes, logCalls, returned>>

\* the terminal is resized, or the size query starts or stops failing
Resize(t) ==
    /\ running
    /\ t # terminal
    /\ terminal' = t
    /\ UNCHANGED <<loggers, active_loggers, console, file, scope, closes,
                   logCalls, running, returned>>

MainSessions == {"a"}

Next ==
    \/ \E s \in MainSessions, cfg \in Configs : New(s, cfg)
    \/ \E s \in MainSessions, level \in LogLevels, m \in Messages, now, row_now \in Timestamps :
          Log(s, level, m, now, row_now)
    \/ \E s \in MainSessions, m \in Messages, now, row_now \in Timestamps : Info(s, m, now, row_now)
    \/ \E s \in MainSessions, m \in Messages, now, row_now \in Timestamps : Warning(s, m, now, row_now)
    \/ \E s \in MainSessions, m \in Messages, now, row_now \in Timestamps : Error(s, m, now, row_now)
    \/ \E s \in MainSessions, m \in Messages, now, row_now \in Timestamps : Debug(s, m, now, row_now)
    \/ \E s \in MainSessions : Close(s)
    \/ \E s \in MainSessions : Enter(s)
    \/ \E s \in MainSessions, failed \in BOOLEAN : Exit(s, failed)
    \/ Shutdown
    \/ \E t \in TerminalSizes : Resize(t)

Spec == Init /\ [][Next]_vars

(***************************************************************************)
(* Two sessions sharing the registry and the console, with the options     *)
(* that do not concern the registry left at fixed values.                  *)
(***************************************************************************)
RegistryConfigs ==
    {cfg \in Configs : /\ ~cfg.with_time /\ ~cfg.log_to_file /\ ~cfg.use_color
                       /\ cfg.custom_colors = None /\ cfg.table_title = None}

NextRegistry ==
    \/ \E s \in SessionIds, cfg \in RegistryConfigs : New(s, cfg)
    \/ \E s \in SessionIds, m \in Messages, now, row_now \in Timestamps : Info(s, m, now, row_now)
    \/ \E s \in SessionIds : Close(s)
    \/ \E s \in SessionIds : Enter(s)
    \/ \E s \in SessionIds, failed \in BOOLEAN : Exit(s, failed)
    \/ Shutdown

SpecRegistry == Init /\ [][NextRegistry]_vars

(***************************************************************************)
(* The width calculation on its own: one table session, every terminal     *)
(* width up to MaxColumns, and direct calls of calculate_optimal_widths.   *)
(***************************************************************************)
WideSizes == {Answer(n) : n \in 1..MaxColumns} \cup {QueryFails}

WidthConfigs ==
    {cfg \in Configs : /\ cfg.table_view /\ ~cfg.log_to_file /\ cfg.use_color
                       /\ cfg.log_to_console
                       /\ cfg.custom_colors = None /\ cfg.table_title = None}

InitWidths ==
    /\ \E cfg \in WidthConfigs : loggers = ("a" :> Logsy_init(cfg))
    /\ active_loggers = {"a"}
    /\ console = <<>>
    /\ file = <<>>
    /\ terminal \in WideSizes
    /\ scope = [s \in SessionIds |-> Outside]
    /\ closes = [s \in SessionIds |-> 0]
    /\ logCalls = 0
    /\ running = TRUE
    /\ returned = None

\* session.calculate_optimal_widths()
CalculateOptimalWidths(s) ==
    /\ running
    /\ s \in DOMAIN loggers
    /\ loggers' = [loggers EXCEPT ![s] = with_widths(loggers[s], terminal)]
    /\ UNCHANGED <<active_loggers, console, file, terminal, scope, closes, logCalls,
                   running, returned>>

NextWidths ==
    \/ \E s \in MainSessions : CalculateOptimalWidths(s)
    \/ \E t \in WideSizes : Resize(t)

SpecWidths == InitWidths /\ [][NextWidths]_vars

(***************************************************************************)
(* Table rows on their own: one table session printing to the console, a   *)
(* custom level longer than the level column and the long message of the   *)
(* tests, so that cells wrap.                                              *)
(***************************************************************************)
Maintenance == <<"m", "a", "i", "n", "t", "e", "n", "a", "n", "c", "e">>
LongMessage ==
    <<"T", "h", "i", "s", " ", "i", "s", " ", "a", " ", "v", "e", "r", "y", " ", "l", "o", "n", "g", " ", "l", "o", "g", " ", "m", "e", "s", "s", "a", "g">>
    \o <<"e", " ", "t", "o", " ", "t", "e", "s", "t", " ", "t", "a", "b", "l", "e", " ", "r", "e", "s", "p", "o", "n", "s", "i", "v", "e", "n", "e", "s", "s">>

InitRows ==
    /\ \E cfg \in Configs :
          /\ cfg.table_view /\ cfg.log_to_console /\ ~cfg.log_to_file
          /\ cfg.custom_colors = None /\ cfg.table_title = None
          /\ loggers = ("a" :> Logsy_init(cfg))
    /\ active_loggers = {"a"}
    /\ console = <<>>
    /\ file = <<>>
    /\ terminal \in TerminalSizes
    /\ scope = [s \in SessionIds |-> Outside]
    /\ closes = [s \in SessionIds |-> 0]
    /\ logCalls = 0
    /\ running = TRUE
    /\ returned = None

NextRows ==
    \/ \E s \in MainSessions, level \in {Maintenance}, m \in Messages \cup {LongMessage},
          now, row_now \in Timestamps : Log(s, level, m, now, row_now)
    \/ \E s \in MainSessions, m \in Messages \cup {LongMessage}, now, row_now \in Timestamps :
          Info(s, m, now, row_now)
    \/ \E s \in MainSessions : Close(s)
    \/ \E t \in TerminalSizes : Resize(t)

SpecRows == InitRows /\ [][NextRows]_vars

(***************************************************************************)
(* Construction on its own: every custom_colors mapping of up to           *)
(* MaxEntries entries over levels with and without a default color, in     *)
(* either case, and color names that are known, known in another case, and *)
(* unknown.                                                                *)
(***************************************************************************)
CustomColorInputs ==
    {items \in UNION {[1..n -> {<<<<"i", "n", "f", "o">>, INFO, Note, ERROR>>[l] : l \in 1..4}
                                \X {Cyan, <<"G", "r", "e", "e", "n">>,
                                     <<"p", "i", "n", "k">>}] : n \in 0..MaxEntries} :
        \A i, j \in DOMAIN items : i # j => items[i][1] # items[j][1]}

\* Logsy(custom_colors=...), the harness keeping the mapping it passed
Construct(s, cfg) ==
    /\ running
    /\ s \notin DOMAIN loggers
    /\ loggers' = (s :> Logsy_init(cfg)) @@ loggers
    /\ active_loggers' = IF cfg.table_view THEN active_loggers \cup {s} ELSE active_loggers
    /\ returned' = Some([custom_colors |-> cfg.custom_colors])
    /\ UNCHANGED <<console, file, terminal, scope, closes, logCalls, running>>

NextColors ==
    \E s \in MainSessions, items \in CustomColorInputs, table \in BOOLEAN :
        Construct(s, [with_time |-> FALSE, log_to_file |-> FALSE, use_color |-> TRUE,
                      custom_colors |-> items, log_to_console |-> TRUE,
                      table_view |-> table, table_title |-> None])

SpecColors == Init /\ [][NextColors]_vars

(***************************************************************************)
(* wrap_text on its own: direct calls with every text of up to MaxText      *)
(* characters over a word character, the hyphen and the blank, some texts  *)
(* with a tab and with escape codes, and every width from 0 to MaxWidth.   *)
(***************************************************************************)
WrapTexts ==
    UNION {[1..n -> {"a", "-", " "}] : n \in 0..MaxText}
    \cup {<<" ", "TAB", " ">>,
          COLOR_MAP[Red] \o <<"a", "a">> \o COLOR_MAP[Reset],
          <<"a", " ">> \o COLOR_MAP[Red] \o <<"a">>}

InitWrap ==
    /\ \E cfg \in WidthConfigs : cfg.with_time /\ loggers = ("a" :> Logsy_init(cfg))
    /\ active_loggers = {"a"}
    /\ console = <<>>
    /\ file = <<>>
    /\ terminal = QueryFails
    /\ scope = [s \in SessionIds |-> Outside]
    /\ closes = [s \in SessionIds |-> 0]
    /\ logCalls = 0
    /\ running = TRUE
    /\ returned = None

\* the outcome of session.wrap_text(text, width): the ValueError of textwrap
\* propagates, otherwise the list of lines is returned
wrap_text_outcome(text, width) ==
    [text   |-> text,
     width  |-> width,
     raised |-> wrap_text_raises(text, width),
     lines  |-> IF wrap_text_raises(text, width) THEN <<>> ELSE wrap_text(text, width)]

\* session.wrap_text(text, width)
WrapText(s, text, width) ==
    /\ running
    /\ s \in DOMAIN loggers
    /\ returned' = Some(wrap_text_outcome(text, width))
    /\ UNCHANGED <<loggers, active_loggers, console, file, terminal, scope, closes,
                   logCalls, running>>

NextWrap ==
    \E s \in MainSessions, text \in WrapTexts, width \in 0..MaxWidth : WrapText(s, text, width)

SpecWrap == InitWrap /\ [][NextWrap]_vars

(***************************************************************************)
(* Properties.                                                             *)
(***************************************************************************)
EntriesOf(con, s) == SelectSeq(con, LAMBDA e : e.sid = s)
KindCount(con, s, kind) == Len(SelectSeq(con, LAMBDA e : e.sid = s /\ e.kind = kind))
TableKinds == {"title", "top", "labels", "separator", "row", "footer"}

\* C1: a table session prints its header block at most once: nothing is
\* printed before the first row write, the first row write prints the header
\* block directly in front of its row, and no later row write prints it again.
C1_HeaderAtMostOnce ==
    \A s \in DOMAIN loggers :
        LET self == loggers[s]
            mine == EntriesOf(console, s)
            rows == {i \in DOMAIN mine : mine[i].kind = "row"}
        IN self.table_view =>
              /\ \A k \in {"title", "top", "labels", "separator"} : KindCount(console, s, k) <= 1
              /\ self.row_count = 0 => mine = <<>>
              /\ self.row_count > 0 =>
                    /\ rows # {}
                    /\ \E t \in DOMAIN mine :
                          /\ mine[t].kind = "top"
                          /\ \A r \in rows : t < r
                          /\ t + 3 \in rows
                          /\ mine[t + 1].kind = "labels"
                          /\ mine[t + 2].kind = "separator"

C1_Witness ==
    \E s \in DOMAIN loggers :
        /\ loggers[s].table_view
        /\ loggers[s].row_count >= 2
        /\ KindCount(console, s, "top") = 1

\* C2: once a table session has written a row, every footer request (close,
\* scope exit) leaves exactly one footer on the console and the session
\* marked as closed; a request made when the footer is out prints nothing.
C2_FooterExactlyOnce ==
    [][\A s \in DOMAIN loggers :
           (closes'[s] > closes[s] /\ loggers[s].table_view /\ loggers[s].header_printed)
           => /\ KindCount(console', s, "footer") = 1
              /\ loggers'[s].footer_printed
              /\ loggers[s].footer_printed => console' = console]_vars

C2_Witness ==
    \E s \in DOMAIN loggers :
        /\ closes[s] >= 2
        /\ loggers[s].row_count >= 1
        /\ KindCount(console, s, "footer") = 1
        /\ console[Len(console)].kind = "footer"

\* C3: a session is in the registry exactly when it was constructed with
\* table_view; no session ever has two footers; and once the interpreter has
\* shut down, every registered session that printed its header has exactly
\* one footer.
C3_RegistryFlush ==
    \A s \in DOMAIN loggers :
        /\ s \in active_loggers <=> loggers[s].table_view
        /\ KindCount(console, s, "footer") <= 1
        /\ (~running /\ s \in active_loggers /\ loggers[s].header_printed)
           => KindCount(console, s, "footer") = 1

\* one session closed explicitly before the other one wrote a row, the other
\* one closed by the shutdown hook
C3_Witness ==
    /\ ~running
    /\ \E s, t \in DOMAIN loggers :
          /\ s # t
          /\ closes[t] = 0 /\ scope[t] = Outside
          /\ \E i, j, k \in DOMAIN console :
                /\ i < j /\ j < k
                /\ console[i].sid = s /\ console[i].kind = "footer"
                /\ console[j].sid = t /\ console[j].kind = "row"
                /\ console[k].sid = t /\ console[k].kind = "footer"

\* C4: a table session that has written no row has nothing on the console,
\* whatever close, scope exit or shutdown requests were made.
C4_NoRowsNoArtifacts ==
    \A s \in DOMAIN loggers :
        (loggers[s].table_view /\ loggers[s].row_count = 0)
        => \A i \in DOMAIN console : console[i].sid # s

C4_Witness ==
    \E s \in DOMAIN loggers :
        /\ loggers[s].table_view /\ loggers[s].log_to_console
        /\ loggers[s].row_count = 0
        /\ closes[s] >= 2
        /\ scope[s] = LeftNormally
        /\ ~running
        /\ console = <<>>

\* C5: entering the scope yields the session itself, and leaving it, normally
\* or by a failure, leaves a session whose header is out with its footer
\* printed.
C5_ScopeExitFlushes ==
    [][\A s \in DOMAIN loggers :
           /\ scope'[s] \in SessionIds => scope'[s] = s
           /\ (scope[s] \in SessionIds /\ scope'[s] \notin SessionIds
               /\ loggers[s].header_printed)
              => /\ loggers'[s].footer_printed
                 /\ KindCount(console', s, "footer") = 1]_vars

\* the only footer request was a scope exit by failure, and the footer is out
C5_Witness ==
    \E s \in DOMAIN loggers :
        /\ scope[s] = LeftByFailure
        /\ closes[s] = 1
        /\ loggers[s].row_count >= 1
        /\ KindCount(console, s, "footer") = 1

\* C6: in every configuration and for every level, with or without an entry
\* in the color table, the file holds no escape character.
C6_FileHasNoEscapeCodes == \A i \in DOMAIN file : file[i] # ESC

\* a colorizing session without custom colors has logged a level that has no
\* color of its own
C6_Witness ==
    \E s \in DOMAIN loggers :
        /\ loggers[s].use_color /\ loggers[s].log_to_file
        /\ loggers[s].colors = DEFAULT_COLORS
        /\ Contains(file, <<"[", "N", "O", "T", "E", "]">>)

\* the record format of the file, written out from the documentation
RecordLevels == {INFO, WARNING, ERROR, DEBUG, <<"N", "O", "T", "E">>}
RecordLines == {LogLineBuild, LogLineRow}
RecordFormat(with_time, level, message, now, line_number) ==
    (IF with_time THEN <<"[">> \o now \o <<"]", " ">> ELSE <<>>)
    \o <<"[">> \o level \o <<"]", " ">>
    \o FileName \o <<":">> \o DigitsOf(line_number)
    \o <<" ", "-", " ">> \o message \o <<"LF">>

\* C7: a log() call of a session with log_to_file appends exactly one record
\* in the line format to the end of the file, whatever table_view and
\* log_to_console are; with log_to_file off it leaves the file alone, and so
\* does every other operation.
C7_FileAppendOnly ==
    [][IF logCalls' = logCalls + 1
       THEN \E s \in DOMAIN loggers :
               IF loggers[s].log_to_file
               THEN \E level \in RecordLevels, m \in Messages, now \in Timestamps,
                       line_number \in RecordLines :
                       file' = file \o RecordFormat(loggers[s].with_time, level, m, now,
                                                    line_number)
               ELSE file' = file
       ELSE file' = file]_vars

\* two records written by a table session that does not print to the console
C7_Witness ==
    \E s \in DOMAIN loggers :
        /\ loggers[s].log_to_file /\ loggers[s].table_view /\ ~loggers[s].log_to_console
        /\ ~loggers[s].with_time
        /\ logCalls = 2
        /\ Cardinality({i \in DOMAIN file : file[i] = "LF"}) = 2

\* the widths the documentation gives for a terminal of the given width
ClaimedOverhead(with_time) == IF with_time THEN 13 ELSE 10
ClaimedMinimums(with_time) ==
    [time |-> IF with_time THEN 19 ELSE 0, level |-> 8, file_line |-> 15, message |-> 20]
ClaimedMinimumSum(with_time) == (IF with_time THEN 19 ELSE 0) + 8 + 15 + 20
ClaimedExtra(columns, with_time) ==
    columns - ClaimedOverhead(with_time) - ClaimedMinimumSum(with_time)
ClaimedWidths(columns, with_time) ==
    [time      |-> IF with_time THEN 19 + (ClaimedExtra(columns, with_time) * 10) \div 100
                   ELSE 0,
     level     |-> 8,
     file_line |-> 15 + (ClaimedExtra(columns, with_time) * 20) \div 100,
     message   |-> 20 + (ClaimedExtra(columns, with_time) * 70) \div 100]

\* C8: when the available width is at least the sum of the minimum widths,
\* the widths computed are level 8, file_line 15 + floor(extra * 0.20),
\* message 20 + floor(extra * 0.70) and time 19 + floor(extra * 0.10) (0
\* without time).
C8_WeightedWidths ==
    [][\A s \in DOMAIN loggers :
           (/\ loggers[s].auto_column_widths = None
            /\ loggers'[s].auto_column_widths # None
            /\ terminal.ok
            /\ ClaimedExtra(terminal.columns, loggers[s].with_time) >= 0)
           => loggers'[s].auto_column_widths[1]
                 = ClaimedWidths(terminal.columns, loggers[s].with_time)]_vars

\* C9: when the available width is below the sum of the minimum widths the
\* widths computed are exactly the minimums, and the widths computed are
\* always positive, the time width non-negative.
C9_NarrowMinimums ==
    [][\A s \in DOMAIN loggers :
           loggers'[s].auto_column_widths # None
           => LET w       == loggers'[s].auto_column_widths[1]
                  columns == IF terminal.ok THEN terminal.columns ELSE 120
              IN /\ w.level > 0 /\ w.file_line > 0 /\ w.message > 0 /\ w.time >= 0
                 /\ (/\ loggers[s].auto_column_widths = None
                     /\ ClaimedExtra(columns, loggers[s].with_time) < 0)
                    => w = ClaimedMinimums(loggers[s].with_time)]_vars

\* the minimums, computed with time on a terminal 40 columns wide
C9_Witness ==
    \E s \in DOMAIN loggers :
        /\ loggers[s].with_time
        /\ terminal = Answer(40)
        /\ loggers[s].auto_column_widths = Some(ClaimedMinimums(TRUE))

\* C10: once a session has computed its column widths they never change,
\* whatever the terminal reports later, and every table line of the session
\* (header, rows, footer) is drawn with them.
C10_WidthsStable ==
    [][\A s \in DOMAIN loggers :
           /\ loggers[s].auto_column_widths # None
              => loggers'[s].auto_column_widths = loggers[s].auto_column_widths
           /\ \A i \in DOMAIN console' :
                 (console'[i].sid = s /\ console'[i].kind \in TableKinds)
                 => console'[i].widths = loggers'[s].auto_column_widths]_vars

\* header, row and footer are out, and the terminal now reports a size that
\* would give other widths
C10_Witness ==
    \E s \in DOMAIN loggers :
        /\ KindCount(console, s, "top") = 1
        /\ KindCount(console, s, "footer") = 1
        /\ loggers[s].row_count >= 2
        /\ fresh_widths(loggers[s], terminal) # loggers[s].auto_column_widths[1]

\* C11: when the available width is at least the sum of the minimum widths,
\* with and without the time column, the border overhead plus the four widths
\* computed is at most the terminal width and falls short of it by at most 3.
C11_WasteAtMostThree ==
    [][\A s \in DOMAIN loggers :
           LET columns == IF terminal.ok THEN terminal.columns ELSE 120
           IN (/\ loggers[s].auto_column_widths = None
               /\ loggers'[s].auto_column_widths # None
               /\ ClaimedExtra(columns, loggers[s].with_time) >= 0)
              => LET w     == loggers'[s].auto_column_widths[1]
                     total == ClaimedOverhead(loggers[s].with_time)
                              + w.time + w.level + w.file_line + w.message
                 IN total <= columns /\ columns - total <= 3]_vars

\* a text without a place to break it: blank throughout, or without a blank
UnbreakableToken(text) ==
    /\ text # <<>>
    /\ \/ \A i \in DOMAIN text : text[i] \in Whitespace
       \/ \A i \in DOMAIN text : text[i] \notin Whitespace

C13_WrapNeverFails ==
    (returned # None /\ (returned[1].width = 0 \/ returned[1].text = <<>>))
    => ~returned[1].raised /\ Len(returned[1].lines) = 1

\* the entries of a mapping that name the level (in any case) with a color
\* name of the table (in any case)
RecognizedFor(items, level) ==
    {i \in DOMAIN items : upper(items[i][1]) = level /\ lower(items[i][2]) \in DOMAIN COLOR_MAP}

\* C14: construction with any custom_colors succeeds; an entry with an
\* unknown color name changes nothing, so a level named only by such entries
\* keeps its default color or stays without one, and a level named by an
\* entry with a known color name, in any case, has that color under its
\* uppercased name, whatever the other entries are.
C14_CustomColors ==
    \A s \in DOMAIN loggers :
        returned # None
        => LET items  == returned[1].custom_colors
               colors == loggers[s].colors
           IN \A level \in {INFO, WARNING, ERROR, DEBUG, <<"N", "O", "T", "E">>} :
                 IF RecognizedFor(items, level) = {}
                 THEN IF level \in DOMAIN DEFAULT_COLORS
                      THEN level \in DOMAIN colors /\ colors[level] = DEFAULT_COLORS[level]
                      ELSE level \notin DOMAIN colors
                 ELSE /\ level \in DOMAIN colors
                      /\ \E i \in RecognizedFor(items, level) :
                            /\ \A j \in RecognizedFor(items, level) : j <= i
                            /\ colors[level] = COLOR_MAP[lower(items[i][2])]

\* a mapping whose first entry names an unknown color and whose second colors
\* a level without a default through a mixed-case name
C14_Witness ==
    \E s \in DOMAIN loggers :
        /\ returned # None
        /\ Len(returned[1].custom_colors) = 2
        /\ returned[1].custom_colors[1] = <<ERROR, <<"p", "i", "n", "k">>>>
        /\ returned[1].custom_colors[2] = <<Note, <<"G", "r", "e", "e", "n">>>>
        /\ loggers[s].colors[ERROR] = COLOR_MAP[Red]
        /\ loggers[s].colors[<<"N", "O", "T", "E">>] = COLOR_MAP[ColorNames[5]]

\* C15: every line a non-table session prints is the assembled line
\* ([timestamp] only with with_time, [LEVEL], file:line, "- message", joined by
\* blanks); with use_color it is preceded by the color code of the level (the
\* reset code for a level without a color) and followed by the reset code,
\* and without use_color it holds no escape character.
C15_LineColorAllOrNothing ==
    \A k \in DOMAIN console :
        console[k].kind = "line"
        => LET self == loggers[console[k].sid]
               text == console[k].text
           IN \E level \in RecordLevels, m \in Messages, now \in Timestamps :
                 LET line == RecordFormat(self.with_time, level, m, now, LogLineBuild)
                     code == IF level \in DOMAIN self.colors THEN self.colors[level]
                             ELSE <<ESC, "[", "0", "m">>
                 IN IF self.use_color
                    THEN text = code \o SubSeq(line, 1, Len(line) - 1)
                                \o <<ESC, "[", "0", "m">>
                    ELSE /\ text = SubSeq(line, 1, Len(line) - 1)
                         /\ \A i \in DOMAIN text : text[i] # ESC

\* a colorizing session with time and custom colors has printed an info line
\* in the custom color
C15_Witness ==
    \E s \in DOMAIN loggers :
        /\ loggers[s].use_color /\ loggers[s].with_time /\ ~loggers[s].table_view
        /\ loggers[s].colors[INFO] = COLOR_MAP[Cyan]
        /\ \E k \in DOMAIN console :
              /\ console[k].sid = s /\ console[k].kind = "line"
              /\ StartsWithAt(console[k].text, 1, COLOR_MAP[Cyan] \o <<"[", "2">>)
              /\ Contains(console[k].text, <<"[", "I", "N", "F", "O", "]">>)

\* the kinds of the lines a step adds to the console for one session
AddedKinds(s) ==
    LET added == EntriesOf(SubSeq(console', Len(console) + 1, Len(console')), s)
    IN [i \in DOMAIN added |-> added[i].kind]

HeaderBlock(self) ==
    (IF self.table_title # None THEN <<"title">> ELSE <<>>) \o <<"top", "labels", "separator">>

OnlyRows(kinds) == kinds # <<>> /\ \A i \in DOMAIN kinds : kinds[i] = "row"

\* C16: the console only grows at its end; a log() call of a table session
\* adds the lines of its row in one piece, preceded by the header block
\* (optional title, top border, labels, separator) exactly when no header is
\* out yet; a footer is added only after the header and alone; and the session
\* never goes back from header printed or from footer printed.
C16_TableOrder ==
    [][/\ Len(console') >= Len(console)
       /\ SubSeq(console', 1, Len(console)) = console
       /\ \A s \in DOMAIN loggers' :
             LET after == loggers'[s]
                 kinds == AddedKinds(s)
                 had_header == KindCount(console, s, "top") = 1
             IN /\ \/ kinds = <<>>
                   \/ kinds = <<"line">> /\ ~after.table_view
                   \/ kinds = <<"footer">> /\ had_header /\ KindCount(console, s, "footer") = 0
                   \/ OnlyRows(kinds) /\ had_header /\ logCalls' = logCalls + 1
                   \/ /\ ~had_header /\ logCalls' = logCalls + 1
                      /\ Len(kinds) > Len(HeaderBlock(after))
                      /\ SubSeq(kinds, 1, Len(HeaderBlock(after))) = HeaderBlock(after)
                      /\ OnlyRows(SubSeq(kinds, Len(HeaderBlock(after)) + 1, Len(kinds)))
                /\ after.header_printed <=> KindCount(console', s, "top") = 1
                /\ after.footer_printed <=> KindCount(console', s, "footer") = 1
                /\ after.footer_printed => after.header_printed
                /\ s \in DOMAIN loggers
                   => /\ loggers[s].header_printed => after.header_printed
                      /\ loggers[s].footer_printed => after.footer_printed]_vars

\* title, header, two rows of two lines each, then the footer
C16_Witness ==
    \E s \in DOMAIN loggers :
        LET entries == EntriesOf(console, s)
        IN /\ Len(entries) = 9
           /\ [i \in 1..9 |-> entries[i].kind]
              = <<"title", "top", "labels", "separator", "row", "row", "row", "row", "footer">>

\* C17: the row counter of a session is 0 after construction, grows by
\* exactly 1 with every log() call of a table session that prints to the
\* console, with or without the header being printed by that call, so it
\* equals the number of log() calls made; no other operation changes it.
C17_RowCounter ==
    [][\A s \in DOMAIN loggers' :
           IF s \notin DOMAIN loggers
           THEN loggers'[s].row_count = 0
           ELSE /\ loggers'[s].row_count
                   = IF /\ logCalls' = logCalls + 1
                        /\ loggers[s].table_view /\ loggers[s].log_to_console
                     THEN loggers[s].row_count + 1
                     ELSE loggers[s].row_count
                /\ (loggers[s].table_view /\ loggers[s].log_to_console)
                   => loggers'[s].row_count = logCalls']_vars

\* two rows counted, the first written with the header and the second without
C17_Witness ==
    \E s \in DOMAIN loggers :
        /\ loggers[s].row_count = 2
        /\ logCalls = 2
        /\ KindCount(console, s, "top") = 1
        /\ KindCount(console, s, "row") >= 2

\* the i-th piece of a wrapped field, blank when the field has fewer pieces,
\* left-justified to the column width
Cell(pieces, i, width) ==
    (IF i <= Len(pieces) THEN pieces[i] ELSE <<>>)
    \o Repeat(" ", width - (IF i <= Len(pieces) THEN Len(pieces[i]) ELSE 0))

\* the level cell: the first piece between the color code of the level and
\* the reset code when colors are on, every other piece plain
LevelCell(self, level, pieces, i, width) ==
    IF i = 1 /\ self.use_color
    THEN (IF level \in DOMAIN self.colors THEN self.colors[level] ELSE <<ESC, "[", "0", "m">>)
         \o pieces[1] \o <<ESC, "[", "0", "m">> \o Repeat(" ", width - Len(pieces[1]))
    ELSE Cell(pieces, i, width)

RowLine(self, level, T, L, F, M, i, w) ==
    <<"U2503">>
    \o (IF self.with_time THEN Cell(T, i, w.time) \o <<"U2503">> ELSE <<>>)
    \o LevelCell(self, level, L, i, w.level) \o <<"U2503">>
    \o Cell(F, i, w.file_line) \o <<"U2503">>
    \o Cell(M, i, w.message) \o <<"U2503">>

RowAsWrapped(self, rows, level, T, L, F, M, w) ==
    /\ Len(rows) = Max(Max(Len(T), Len(L)), Max(Len(F), Len(M)))
    /\ \A i \in DOMAIN rows : rows[i].text = RowLine(self, level, T, L, F, M, i, w)

\* C18: a row write wraps time, level, file:line and message each to its own
\* column width and prints as many physical lines as the longest of the four
\* has pieces, line i holding the i-th piece of each field or blanks; of the
\* level only the first piece is colorized.
C18_RowLines ==
    [][logCalls' = logCalls + 1
       => \A s \in DOMAIN loggers :
             LET self == loggers'[s]
                 w    == self.auto_column_widths[1]
                 rows == SelectSeq(SubSeq(console', Len(console) + 1, Len(console')),
                                   LAMBDA e : e.sid = s /\ e.kind = "row")
             IN \E level \in {INFO, upper(Maintenance)},
                   m \in Messages \cup {LongMessage}, now \in Timestamps :
                   RowAsWrapped(self, rows, level,
                                IF self.with_time THEN wrap_text(now, w.time) ELSE << <<>> >>,
                                wrap_text(level, w.level),
                                wrap_text(FileName \o <<":", "3", "4", "3">>, w.file_line),
                                wrap_text(m, w.message), w)]_vars

\* a colorized row whose level and message both continue on a second line,
\* the continuation of the level being plain
C18_Witness ==
    \E k \in 1..(Len(console) - 1) :
        /\ console[k].kind = "row" /\ console[k + 1].kind = "row"
        /\ Contains(console[k].text,
                    <<ESC, "[", "0", "m", "M", "A", "I", "N", "T", "E", "N", "A", ESC>>)
        /\ Contains(console[k].text, <<"T", "h", "i", "s", " ", "i", "s">>)
        /\ Contains(console[k + 1].text, <<"U2503", "N", "C", "E", " ">>)
        /\ Contains(console[k + 1].text, <<"m", "e", "s", "s", "a", "g", "e">>)
        /\ \A i \in DOMAIN console[k + 1].text : console[k + 1].text[i] # ESC

\* the positions of a text a terminal shows: an escape sequence, from ESC to
\* its final m, takes no room
Visible(text) ==
    {i \in DOMAIN text :
        ~\E e \in {h \in DOMAIN text : text[h] = ESC} :
              e <= i /\ \A j \in (e + 1)..(i - 1) : text[j] # "m"}

\* where the vertical glyphs of a line stand, given the column widths
GlyphPositions(w, with_time) ==
    LET first == IF with_time THEN w.time + 1 ELSE 0
    IN {1, 1 + first, 1 + first + w.level + 1, 1 + first + w.level + 1 + w.file_line + 1,
        1 + first + w.level + 1 + w.file_line + 1 + w.message + 1}

C20_TitleCentered ==
    \A s \in DOMAIN loggers :
        /\ KindCount(console, s, "title") <= 1
        /\ ~loggers[s].table_view => KindCount(console, s, "title") = 0
        /\ \A k \in DOMAIN console :
              (console[k].sid = s /\ console[k].kind = "title")
              => /\ k < Len(console)
                 /\ console[k + 1].kind = "top"
                 /\ LET title == loggers[s].table_title
                        over  == Cardinality(Visible(console[k + 1].text))
                    IN \E left, right \in 0..over :
                          /\ left + Len(title) + right = over
                          /\ left - right \in {-1, 0, 1}
                          /\ console[k].text = Repeat(" ", left) \o title \o Repeat(" ", right)

====
